---- MODULE Spec2Model ----
(***************************************************************************)
(* A model of the real-time session pipeline of sobub-ai.                  *)
(*                                                                         *)
(* The client side (WebSocketService, AudioPlayer, AppContent) is          *)
(* translated from the JavaScript sources.  One action is one task of the  *)
(* browser's event loop: a public method call, a timer callback, an event  *)
(* handler, or the continuation of an async function after an await.       *)
(* Time is counted in ticks of 500 ms.  A timer of 100 ms is due within    *)
(* the tick in which it was set.  A task the browser has queued (an event  *)
(* of a stopped recorder, the continuation of an await that waits for no   *)
(* outside party) runs before any timer callback and before time passes;   *)
(* getUserMedia, socket events and the calls of the user interface happen  *)
(* at any moment.  Timers set for the same tick with the same callback     *)
(* count as one.                                                           *)
(*                                                                         *)
(* The server side (the per-client message loop and the TriggerEngine) is  *)
(* not part of the sources at hand; it is modelled from the design         *)
(* document and kept apart from the client in the definitions below.       *)
(*                                                                         *)
(* The specifications share the variables:                                 *)
(*   Spec          the capture session under every call of its interface   *)
(*   SpecStop      the capture session of a client that never disconnects  *)
(*   SpecPipeline  one uninterrupted session and the server's message loop *)
(*   SpecConnection the session and its connection, ended by disconnect()  *)
(*   SpecPause     one session, paused and resumed in one task             *)
(*   SpecMessages  a session that receives the messages of the server      *)
(*   SpecFeedback  the capture session while clips start and end           *)
(*   SpecPlayback  the connection, the audio player and its coordinator    *)
(*   SpecEngine    the trigger engine and the audio_ended message          *)
(*   SpecMatcher   the matcher on every library and transcript             *)
(*   SpecClients   two pages and the status they load                      *)
(*   SpecSession   the session as SessionControl starts and stops it       *)
(*   SpecOrder     the session with conversions completing in any order    *)
(*   SpecSend      chunks and control messages on a socket that may close  *)
(*   SpecStart     the capture session with startRecording called any time *)
(*   SpecErrors    the ErrorHandler and its listeners                      *)
(***************************************************************************)
EXTENDS Integers, Sequences, FiniteSets, TLC

(***************************************************************************)
(* Program constants                                                       *)
(***************************************************************************)
\* this.maxLogSize = 100
maxLogSize == 100
\* setTimeout(() => this.startRecordingCycle(), 100): within the current tick
CycleDelay == 0
\* await new Promise(resolve => setTimeout(resolve, 500)): one tick
RestartDelay == 1
\* const MIN_CHUNK_SIZE = 500 (bytes)
MIN_CHUNK_SIZE == 500
\* this.chunkLengthSeconds = 3 in the constructor
DefaultChunkLength == 3
\* this.chunkLengthSeconds * 1000 ms, in ticks of 500 ms
TicksPerSecond == 2

(***************************************************************************)
(* Bounds of the model                                                     *)
(***************************************************************************)
\* sockets that exist at the same time
MaxSockets == 2
\* microphone streams live or asked for at the same time
MaxStreams == 2
\* tasks of one kind (stop events, buffer conversions) pending at once
MaxPending == 1
\* buffer conversions pending at once where their order is looked at
MaxConversions == 2
\* chunks counted as waiting in the channel; more count as this many
MaxQueue == 2
\* trigger messages the client receives
MaxTriggers == 2
\* triggers counted since the last playback-ended signal
MaxEmitted == 2
\* audio_ended messages on their way to the server at once
MaxMsgs == 1
\* characters of a transcript
MaxTranscriptLen == 3
\* listeners registered with the ErrorHandler at the same time
MaxListeners == 2
\* calls of handle()
MaxHandled == 102
\* the ends of one playback that are counted
MaxEnds == 2

\* chunk lengths (seconds) the caller passes to startRecording
ChunkLengths == {1}
\* chunk lengths startRecording is called with in a session that is recording
StartLengths == ChunkLengths \cup {DefaultChunkLength}
\* byte sizes a finalized recording can have: nothing, undersized, valid
ChunkSizes == {0, MIN_CHUNK_SIZE - 1, MIN_CHUNK_SIZE}
\* error names getUserMedia rejects with
GumErrors == {"NotAllowedError", "NotFoundError", "NotReadableError"}
\* the instants (seconds) at which the engine is observed
Instants == <<0, 10, 100, 189, 190>>
\* settings of the engine
Cooldowns == {0, 180}
Probabilities == {0, 50, 100}
\* values of the random roll in [0, 100)
Rolls == {0, 42, 50, 99}
\* the items of the library
Items == {1, 2}
\* lastPlaybackEndedAt when playback has never ended
None == -1
\* the pages that are open, each with a WebSocketService and a clientId of
\* its own
Clients == {1, 2}
\* useState(null): no status loaded
NoStatus == [loaded |-> FALSE, cooldown_active |-> FALSE, cooldown_remaining |-> 0]
\* no playback of the loaded clip has started:
\*   on    a play event of the clip was handled
\*   n     runs of handlePlayEnd since then
\*   sent  audio_ended messages written to the socket since then
NoEnds == [on |-> FALSE, n |-> 0, sent |-> 0]
\* the functions that are registered as listeners of the ErrorHandler
Listeners == {1, 2}
\* what a listener does when it is called: it returns, it throws, it calls
\* the cleanup function of a listener, or it registers a listener
Behaviours ==
  {[do |-> "return", l |-> 0], [do |-> "throw", l |-> 0]}
    \cup {[do |-> "remove", l |-> f] : f \in Listeners}
    \cup {[do |-> "add", l |-> f] : f \in Listeners}
\* the ErrorHandler after its constructor
NoErrors == [listeners |-> <<>>, errorLog |-> <<>>]
\* SessionControl before the session is started
NoPage == [isActive |-> FALSE, isConnecting |-> FALSE, at |-> "idle", len |-> 0]
\* the characters of transcripts and tags: a letter in both cases, another
\* letter
Chars == {"a", "A", "b"}
\* the tags of the library; the library view stores a tag only after
\* trimming it and only if something is left of it
Vocabulary ==
  {<<"a">>, <<"A", "b">>, <<"b", "a">>, <<"a", "b", "a", "b">>}
\* the transcripts the matcher is given
Transcripts ==
  UNION {[1..n -> Chars] : n \in 0..MaxTranscriptLen}

VARIABLES
  ws,                    \* this.ws: 0 (null) or a socket
  sockState,             \* readyState of every socket object
  mediaRecorder,         \* this.mediaRecorder and its state
  audioStream,           \* this.audioStream: 0 (null) or a stream
  liveStreams,           \* streams whose tracks have not been stopped
  chunkLengthSeconds,    \* this.chunkLengthSeconds
  isRecording,           \* this.isRecording
  isAudioPlaying,        \* this.isAudioPlaying
  corruptedChunksCount,  \* this.corruptedChunksCount
  timers,                \* pending setTimeout callbacks
  stopTasks,             \* recorders stopped, their onstop handler not yet run
  convTasks,             \* onstop handlers suspended at await blob.arrayBuffer()
  gumPending,            \* startRecording calls suspended at await getUserMedia
  gumAvailable,          \* navigator.mediaDevices.getUserMedia exists on this page
  stopped,               \* the caller's last word was stop or disconnect (history)
  ev,                    \* what the last step did (observation only)
  \* AppContent and AudioPlayer
  triggerData,           \* AppContent's triggerData: 0 (null) or the trigger's number
  showAudioUnlock,       \* AppContent's showAudioUnlock
  audio,                 \* the audio element: its src and what it is doing
  mediaEvents,           \* events of the audio element not yet dispatched
  awaiters,              \* functions suspended at await play()
  autoplayAllowed,       \* the browser lets play() start without a gesture
  owed,                  \* a trigger arrived and handlePlayEnd has not run since (history)
  \* the server (modelled from the design document)
  srvQueue,              \* chunks sent that the message loop has not taken up
  srvBusy,               \* chunks being transcribed and decided
  clock,                 \* index of the current instant
  lastPlaybackEndedAt,   \* CooldownState
  cooldownSeconds,       \* TriggerSettings
  triggerProbabilityPercent,
  decision,              \* what decide() returned in the last step
  emitted,               \* triggers returned since the last onPlaybackEnded (history)
  endedMsgs,             \* audio_ended messages on their way to the server
  callbacks,             \* the events an observer is registered for with on()
  \* the ContextMatcher (modelled from the design document)
  library,               \* the tag set of every item
  transcript,            \* the transcript last matched
  matched,               \* the items match() returned for it, in order
  \* the pages open at the same time
  status,                \* SessionControl's status of every page
  signalled,             \* the pages whose audio_ended the server has received (history)
  clip,                  \* a clip is playing: between handlePlayStart and handlePlayEnd (history)
  heard,                 \* which recordings were made while a clip played (history)
  \* SessionControl
  page,                  \* isActive, isConnecting and where handleStart waits
  \* AppContent again
  ends,                  \* how often the playback of the loaded clip was ended (history)
  \* the browser
  recorders,             \* MediaRecorder objects whose state is 'recording'
  overtaken,             \* the oldest conversions a later chunk was sent ahead of (history)
  \* ErrorHandler
  errorHandler,          \* its listeners and its errorLog
  handled                \* calls of handle() so far (history)

vars == <<ws, sockState, mediaRecorder, audioStream, liveStreams,
          chunkLengthSeconds, isRecording, isAudioPlaying,
          corruptedChunksCount, timers, stopTasks, convTasks, gumPending,
          gumAvailable, stopped, ev, triggerData, showAudioUnlock, audio, mediaEvents,
          awaiters, autoplayAllowed, owed, srvQueue, srvBusy, clock,
          lastPlaybackEndedAt, cooldownSeconds, triggerProbabilityPercent,
          decision, emitted, endedMsgs, callbacks, library, transcript,
          matched, status, signalled, clip, heard,
          page,
          ends,
          recorders,
          overtaken,
          errorHandler,
          handled>>

Sockets == 1..MaxSockets
Streams == 1..MaxStreams

NoRecorder == [state |-> "null", stream |-> 0]

\* the observation of a step that did nothing observable:
\*   size    bytes of the recording an onstop handler was given
\*   sent    a chunk was written to the socket
\*   restart restartRecording was called, saved its savedChunkLength
\*   started a MediaRecorder was started
\*   errs    calls of the error callback
\*   ctl     a control message was written to the socket
\*   conn    what the connection observer was told: "up", "down" or nothing
\*   settled how the promise of connect() was settled, if it was
\*   failed  startRecording failed; named tells whether the error it threw
\*           bears the name of its cause
\*   resumed the callback of the resume timer ran
\*   early   the control message was written while isAudioPlaying was true
\*   got     the type of the message a frame from the server carried
\*   told    the observer that was called with that message
\*   asked   the chunk length startRecording was called with in a session
\*           that was recording
\*   notified the listeners _notifyListeners called, in the order of the calls
\*   late    the chunk written to the socket was recorded before a chunk
\*           written earlier
NoEv ==
  [size |-> 0, sent |-> FALSE, restart |-> FALSE, saved |-> 0,
   started |-> FALSE, errs |-> 0, ctl |-> FALSE, conn |-> "none",
   settled |-> "none", failed |-> FALSE, named |-> FALSE, resumed |-> FALSE,
   early |-> FALSE, got |-> "none", told |-> "none", asked |-> 0,
   notified |-> <<>>, late |-> FALSE]

\* an audio element without a source
NoAudio == [src |-> 0, phase |-> "idle"]

\* no decision was made in the last step
NoDecision == [kind |-> "idle", item |-> 0, roll |-> 0, matches |-> {}]

\* the state, gathered so that the methods compose as functions
Cur ==
  [ws |-> ws, sockState |-> sockState, mediaRecorder |-> mediaRecorder,
   audioStream |-> audioStream, liveStreams |-> liveStreams,
   chunkLengthSeconds |-> chunkLengthSeconds, isRecording |-> isRecording,
   isAudioPlaying |-> isAudioPlaying,
   corruptedChunksCount |-> corruptedChunksCount, timers |-> timers,
   stopTasks |-> stopTasks, convTasks |-> convTasks,
   gumPending |-> gumPending, gumAvailable |-> gumAvailable,
   stopped |-> stopped, ev |-> ev,
   triggerData |-> triggerData, showAudioUnlock |-> showAudioUnlock,
   audio |-> audio, mediaEvents |-> mediaEvents, awaiters |-> awaiters,
   autoplayAllowed |-> autoplayAllowed, owed |-> owed,
   srvQueue |-> srvQueue, srvBusy |-> srvBusy, clock |-> clock,
   lastPlaybackEndedAt |-> lastPlaybackEndedAt,
   cooldownSeconds |-> cooldownSeconds,
   triggerProbabilityPercent |-> triggerProbabilityPercent,
   decision |-> decision, emitted |-> emitted, endedMsgs |-> endedMsgs,
   callbacks |-> callbacks, library |-> library, transcript |-> transcript,
   matched |-> matched, status |-> status, signalled |-> signalled,
   clip |-> clip, heard |-> heard,
   page |-> page,
   ends |-> ends,
   recorders |-> recorders,
   overtaken |-> overtaken,
   errorHandler |-> errorHandler,
   handled |-> handled]

\* The recordings that overlap a playback, after a step that ends in s:
\*   rec   the recorder that records, or recorded last, ran while a clip played
\*   stop  the same for each recording whose stop event is pending
\*   conv  the same for each chunk that is being converted
\*   sent  the step wrote a chunk to the socket that was recorded while a
\*         clip played
\* A recording overlaps a playback if its recorder is recording in a state
\* in which a clip plays.
Track(s) ==
  LET stoppedNow == mediaRecorder.state = "recording"
                      /\ s.mediaRecorder.state # "recording"
      kept == IF stoppedNow THEN Len(s.stopTasks) - 1 ELSE Len(s.stopTasks)
      stopLeft == IF kept < Len(stopTasks) THEN Tail(heard.stop) ELSE heard.stop
      handed == Len(s.convTasks) > Len(convTasks)
      taken == Len(s.convTasks) < Len(convTasks)
  IN  [rec |-> \/ (~s.ev.started /\ heard.rec)
               \/ (s.mediaRecorder.state = "recording" /\ s.clip),
       stop |-> IF stoppedNow THEN Append(stopLeft, heard.rec) ELSE stopLeft,
       conv |-> IF handed THEN Append(heard.conv, Head(heard.stop))
                ELSE IF taken THEN Tail(heard.conv)
                ELSE heard.conv,
       sent |-> s.ev.sent /\ Head(heard.conv)]

\* the state at the start of a step
Begin == [Cur EXCEPT !.ev = NoEv, !.decision = NoDecision]

Commit(s) ==
  /\ ws' = s.ws
  /\ sockState' = s.sockState
  /\ mediaRecorder' = s.mediaRecorder
  /\ audioStream' = s.audioStream
  /\ liveStreams' = s.liveStreams
  /\ chunkLengthSeconds' = s.chunkLengthSeconds
  /\ isRecording' = s.isRecording
  /\ isAudioPlaying' = s.isAudioPlaying
  /\ corruptedChunksCount' = s.corruptedChunksCount
  /\ timers' = s.timers
  /\ stopTasks' = s.stopTasks
  /\ convTasks' = s.convTasks
  /\ gumPending' = s.gumPending
  /\ gumAvailable' = s.gumAvailable
  /\ stopped' = s.stopped
  /\ ev' = s.ev
  /\ triggerData' = s.triggerData
  /\ showAudioUnlock' = s.showAudioUnlock
  /\ audio' = s.audio
  /\ mediaEvents' = s.mediaEvents
  /\ awaiters' = s.awaiters
  /\ autoplayAllowed' = s.autoplayAllowed
  /\ owed' = s.owed
  /\ srvQueue' = s.srvQueue
  /\ srvBusy' = s.srvBusy
  /\ clock' = s.clock
  /\ lastPlaybackEndedAt' = s.lastPlaybackEndedAt
  /\ cooldownSeconds' = s.cooldownSeconds
  /\ triggerProbabilityPercent' = s.triggerProbabilityPercent
  /\ decision' = s.decision
  /\ emitted' = s.emitted
  /\ endedMsgs' = s.endedMsgs
  /\ callbacks' = s.callbacks
  /\ library' = s.library
  /\ transcript' = s.transcript
  /\ matched' = s.matched
  /\ status' = s.status
  /\ signalled' = s.signalled
  /\ clip' = s.clip
  /\ heard' = Track(s)
  /\ page' = s.page
  /\ ends' = s.ends
  /\ recorders' = s.recorders
  /\ overtaken' = s.overtaken
  /\ errorHandler' = s.errorHandler
  /\ handled' = s.handled

Timer(kind, left, len) == [kind |-> kind, left |-> left, len |-> len]

\* this.ws && this.ws.readyState === WebSocket.OPEN
wsOpen(s) == s.ws # 0 /\ s.sockState[s.ws] = "open"

\* this.mediaRecorder && this.mediaRecorder.state === 'recording'
recorderRecording(s) == s.mediaRecorder.state = "recording"

(***************************************************************************)
(* WebSocketService                                                        *)
(***************************************************************************)
\* MediaRecorder.stop(): the recorder becomes inactive at once; its
\* dataavailable and stop events are delivered by a later task.
recorderStop(s) ==
  [s EXCEPT !.mediaRecorder.state = "inactive",
            !.recorders = @ - 1,
            !.stopTasks = Append(@, "stop")]

\* a startRecordingCycle that does not look at the recorder it has
startRecordingCycleAnew(s) ==
  IF ~s.isRecording \/ s.audioStream = 0 THEN s
  ELSE [s EXCEPT
          !.mediaRecorder = [state |-> "recording", stream |-> s.audioStream],
          !.recorders = @ + 1,
          !.timers = @ \cup
             {Timer("stop", s.chunkLengthSeconds * TicksPerSecond, 0)},
          !.ev.started = TRUE]

startRecordingCycle(s) ==
  IF ~s.isRecording \/ s.audioStream = 0 THEN s
  ELSE IF recorderRecording(s) THEN s
  ELSE [s EXCEPT
          !.mediaRecorder = [state |-> "recording", stream |-> s.audioStream],
          !.recorders = @ + 1,
          !.timers = @ \cup
             {Timer("stop", s.chunkLengthSeconds * TicksPerSecond, 0)},
          !.ev.started = TRUE]

\* a stopRecording that keeps its reference to the recorder
stopRecordingKeep(s) ==
  LET a == [s EXCEPT !.isRecording = FALSE,
                     !.isAudioPlaying = FALSE,
                     !.corruptedChunksCount = 0]
      b == IF recorderRecording(a) THEN recorderStop(a) ELSE a
  IN  IF b.audioStream # 0
      THEN [b EXCEPT !.liveStreams = @ \ {b.audioStream},
                     !.audioStream = 0]
      ELSE b

stopRecording(s) ==
  LET a == [s EXCEPT !.isRecording = FALSE,
                     !.isAudioPlaying = FALSE,
                     !.corruptedChunksCount = 0]
      b == IF recorderRecording(a) THEN recorderStop(a) ELSE a
      c == IF b.audioStream # 0
           THEN [b EXCEPT !.liveStreams = @ \ {b.audioStream},
                          !.audioStream = 0]
           ELSE b
  IN  [c EXCEPT !.mediaRecorder = NoRecorder]

\* the error the catch block of startRecording makes of the one it caught
enhancedError(name) ==
  [name |-> name,
   message |-> CASE name = "NotAllowedError" -> "permission denied"
                 [] name = "NotFoundError" -> "no microphone found"
                 [] name = "NotReadableError" -> "microphone in use"
                 [] OTHER -> "message of the original error"]

\* a catch block that starts over instead of giving up
startRecordingFailedRetry(s, caller, name) ==
  [s EXCEPT !.ev.errs = IF caller = "restart" THEN 2 ELSE 1,
            !.ev.failed = TRUE,
            !.ev.named = (enhancedError(name).name = name),
            !.gumPending = Append(@, [len |-> s.chunkLengthSeconds,
                                      caller |-> caller])]

\* startRecording after getUserMedia has rejected, or has been found
\* missing, with an error of this name: its catch block reports the
\* enhanced error and throws it; the catch block of restartRecording reports
\* it again
startRecordingFailed(s, caller, name) ==
  [s EXCEPT !.ev.errs = IF caller = "restart" THEN 2 ELSE 1,
            !.ev.failed = TRUE,
            !.ev.named = (enhancedError(name).name = name)]

\* a startRecording that does not look at isRecording
startRecordingAnyway(s, len, caller) ==
  LET a == [s EXCEPT !.isAudioPlaying = FALSE]
  IN  IF ~s.gumAvailable
      THEN startRecordingFailed(a, caller, "NotSupportedError")
      ELSE [a EXCEPT !.gumPending =
                       Append(@, [len |-> len, caller |-> caller])]

\* startRecording up to its await of getUserMedia
startRecording(s, len, caller) ==
  IF s.isRecording THEN s
  ELSE LET a == [s EXCEPT !.isAudioPlaying = FALSE]
       IN  IF ~s.gumAvailable
           THEN startRecordingFailed(a, caller, "NotSupportedError")
           ELSE [a EXCEPT !.gumPending =
                            Append(@, [len |-> len, caller |-> caller])]

\* startRecording after getUserMedia has resolved with stream st
startRecordingResume(s, st, len) ==
  startRecordingCycle(
    [s EXCEPT !.audioStream = st,
              !.liveStreams = @ \cup {st},
              !.chunkLengthSeconds = len,
              !.isRecording = TRUE])

\* a restartRecording that forgets the chunk length it saved
restartRecordingDefault(s) ==
  LET savedChunkLength == s.chunkLengthSeconds
      a == stopRecording(s)
  IN  [a EXCEPT !.timers = @ \cup {Timer("restart", RestartDelay, DefaultChunkLength)},
                !.ev.restart = TRUE,
                !.ev.saved = savedChunkLength]

\* a restartRecording that reports the corrupted chunk to the error observer
restartRecordingLoud(s) ==
  LET savedChunkLength == s.chunkLengthSeconds
      a == stopRecording(s)
  IN  [a EXCEPT !.timers = @ \cup {Timer("restart", RestartDelay, savedChunkLength)},
                !.ev.restart = TRUE,
                !.ev.saved = savedChunkLength,
                !.ev.errs = @ + 1]

\* restartRecording up to its await of the delay
restartRecording(s) ==
  LET savedChunkLength == s.chunkLengthSeconds
      a == stopRecording(s)
  IN  [a EXCEPT !.timers = @ \cup {Timer("restart", RestartDelay, savedChunkLength)},
                !.ev.restart = TRUE,
                !.ev.saved = savedChunkLength]

\* the end of the onstop handler: schedule the next cycle
onstopTail(s) ==
  IF s.isRecording /\ ~s.isAudioPlaying
  THEN [s EXCEPT !.timers = @ \cup {Timer("cycle", CycleDelay, 0)}]
  ELSE s

\* an onstop handler without the check of the minimum size
onstopAnySize(s, size) ==
  LET a == [s EXCEPT !.ev.size = size]
  IN
  IF size > 0 /\ wsOpen(a)
  THEN IF ~a.isAudioPlaying
       THEN [a EXCEPT !.convTasks = Append(@, [size |-> size])]
       ELSE onstopTail(a)
  ELSE onstopTail(a)

\* an onstop handler that schedules the next cycle before the chunk is
\* converted and sent
onstopEagerCycle(s, size) ==
  LET a == [s EXCEPT !.ev.size = size]
  IN
  IF size > 0 /\ wsOpen(a)
  THEN IF size < MIN_CHUNK_SIZE
       THEN LET b == [a EXCEPT !.corruptedChunksCount = @ + 1]
            IN  IF b.corruptedChunksCount >= 1
                THEN restartRecording(b)
                ELSE onstopTail(b)
       ELSE LET b == [a EXCEPT !.corruptedChunksCount = 0]
            IN  IF ~b.isAudioPlaying /\ size >= MIN_CHUNK_SIZE
                THEN onstopTail([b EXCEPT !.convTasks = Append(@, [size |-> size])])
                ELSE onstopTail(b)
  ELSE onstopTail(a)

\* an onstop handler that puts up with one undersized chunk before it
\* restarts the session
onstopTolerant(s, size) ==
  LET a == [s EXCEPT !.ev.size = size]
  IN
  IF size > 0 /\ wsOpen(a)
  THEN IF size < MIN_CHUNK_SIZE
       THEN LET b == [a EXCEPT !.corruptedChunksCount = @ + 1]
            IN  IF b.corruptedChunksCount >= 2
                THEN restartRecording(b)
                ELSE onstopTail(b)
       ELSE LET b == [a EXCEPT !.corruptedChunksCount = 0]
            IN  IF ~b.isAudioPlaying /\ size >= MIN_CHUNK_SIZE
                THEN [b EXCEPT !.convTasks = Append(@, [size |-> size])]
                ELSE onstopTail(b)
  ELSE onstopTail(a)

\* mediaRecorder.onstop up to its first await, for a recorder whose
\* dataavailable event carried size bytes
onstop(s, size) ==
  LET a == [s EXCEPT !.ev.size = size]
  IN
  IF size > 0 /\ wsOpen(a)
  THEN IF size < MIN_CHUNK_SIZE
       THEN LET b == [a EXCEPT !.corruptedChunksCount = @ + 1]
            IN  IF b.corruptedChunksCount >= 1
                THEN restartRecording(b)
                ELSE onstopTail(b)
       ELSE LET b == [a EXCEPT !.corruptedChunksCount = 0]
            IN  IF ~b.isAudioPlaying /\ size >= MIN_CHUNK_SIZE
                THEN [b EXCEPT !.convTasks = Append(@, [size |-> size])]
                ELSE onstopTail(b)
  ELSE onstopTail(a)

\* an onstop continuation that keeps the chunk for later when the socket is
\* not open
onstopSendRetry(s, size) ==
  LET a == [s EXCEPT !.ev.size = size]
  IN  IF wsOpen(a) THEN onstopTail([a EXCEPT !.ev.sent = TRUE])
      ELSE [a EXCEPT !.convTasks = Append(@, [size |-> size])]

\* mediaRecorder.onstop after await blob.arrayBuffer()
onstopSend(s, size) ==
  LET a == [s EXCEPT !.ev.size = size]
      b == IF wsOpen(a) THEN [a EXCEPT !.ev.sent = TRUE] ELSE a
  IN  onstopTail(b)

\* a setAudioPlaying that sets no timer when a pause ends
setAudioPlayingNoResume(s, isPlaying) ==
  LET wasPlaying == s.isAudioPlaying
      a == [s EXCEPT !.isAudioPlaying = isPlaying]
  IN  IF ~wasPlaying /\ isPlaying /\ recorderRecording(a)
      THEN recorderStop(a)
      ELSE a

setAudioPlaying(s, isPlaying) ==
  LET wasPlaying == s.isAudioPlaying
      a == [s EXCEPT !.isAudioPlaying = isPlaying]
      b == IF ~wasPlaying /\ isPlaying /\ recorderRecording(a)
           THEN recorderStop(a)
           ELSE a
  IN  IF wasPlaying /\ ~isPlaying /\ b.isRecording
      THEN [b EXCEPT !.timers = @ \cup {Timer("resume", CycleDelay, 0)}]
      ELSE b

\* a callback of the resume timer that does nothing
resumeCycleNever(s) == [s EXCEPT !.ev.resumed = TRUE]

\* the callback of the timer setAudioPlaying sets when a pause ends
resumeCycle(s) ==
  LET a == [s EXCEPT !.ev.resumed = TRUE]
  IN  IF a.isRecording THEN startRecordingCycle(a) ELSE a

\* the callback of the stop timer of a recording cycle
stopCycle(s) ==
  IF recorderRecording(s) THEN recorderStop(s) ELSE s

\* a sendControlMessage that writes to whatever socket there is
sendControlMessageAlways(s) ==
  IF s.ws # 0
  THEN [s EXCEPT !.ev.ctl = TRUE, !.ev.early = s.isAudioPlaying]
  ELSE [s EXCEPT !.ev.errs = @ + 1]

sendControlMessage(s) ==
  IF wsOpen(s)
  THEN [s EXCEPT !.ev.ctl = TRUE, !.ev.early = s.isAudioPlaying]
  ELSE s

\* WebSocketService.getStatus: asks the server for its status
requestStatus(s) == sendControlMessage(s)

\* new WebSocket(...): k names the new socket object; the promise of
\* connect() is pending while the socket is connecting
connect(s, k) ==
  [s EXCEPT !.ws = k, !.sockState[k] = "connecting"]

\* the promise connect() returned for a socket in this state is not settled:
\* the socket has not opened and no error has been reported
promisePending(state) == state \in {"connecting", "failing"}

\* ws.onopen
onopen(s, k) ==
  [s EXCEPT !.sockState[k] = "open",
            !.ev.conn = "up",
            !.ev.settled = "resolved"]

\* a ws.onerror that leaves the promise of connect() alone
onerrorSilent(s, pending) ==
  [s EXCEPT !.ev.errs = @ + 1]

\* ws.onerror: reject() settles the promise only if it is still pending
onerror(s, pending) ==
  [s EXCEPT !.ev.errs = @ + 1,
            !.ev.settled = IF pending THEN "rejected" ELSE @]

\* ws.onclose
onclose(s) == [s EXCEPT !.ev.conn = "down"]

\* ws.close() on a socket that has not opened makes the connection fail;
\* on an open socket it starts the closing handshake
disconnect(s) ==
  LET a == IF s.ws # 0
           THEN [s EXCEPT !.sockState[s.ws] =
                             CASE @ = "connecting" -> "failing"
                               [] @ = "open" -> "closing"
                               [] @ = "closed" -> "none"
                               [] OTHER -> @,
                          !.ws = 0]
           ELSE s
  IN  stopRecording(a)

(***************************************************************************)
(* ErrorHandler                                                            *)
(***************************************************************************)
addListener(s, f) ==
  [s EXCEPT !.errorHandler.listeners = Append(@, f)]

\* the cleanup function addListener(f) returns calls removeListener(f)
removeListener(s, f) ==
  [s EXCEPT !.errorHandler.listeners = SelectSeq(@, LAMBDA l : l # f)]

\* the body of a listener
listenerCall(s, b) ==
  CASE b.do = "remove" -> removeListener(s, b.l)
    [] b.do = "add" ->
         IF Len(s.errorHandler.listeners) < MaxListeners
         THEN addListener(s, b.l) ELSE s
    [] OTHER -> s

\* a _notifyListeners without the try block around the call: the first
\* listener that throws ends the loop
RECURSIVE notifyFromFragile(_, _, _, _)
notifyFromFragile(s, array, beh, i) ==
  IF i > Len(array) THEN s
  ELSE LET a == [listenerCall(s, beh[array[i]]) EXCEPT
                   !.ev.notified = Append(@, array[i])]
       IN  IF beh[array[i]].do = "throw" THEN a
           ELSE notifyFromFragile(a, array, beh, i + 1)

\* this.listeners.forEach(...) from element i on.  forEach visits the array
\* it was called on, up to the length that array had at the call:
\* removeListener assigns a new array to this.listeners and addListener
\* appends, so neither changes an element that is still to be visited.
RECURSIVE notifyFrom(_, _, _, _)
notifyFrom(s, array, beh, i) ==
  IF i > Len(array) THEN s
  ELSE notifyFrom([listenerCall(s, beh[array[i]]) EXCEPT
                     !.ev.notified = Append(@, array[i])],
                  array, beh, i + 1)

\* a _notifyListeners that a throwing listener ends
notifyListenersFragile(s, beh) ==
  notifyFromFragile(s, s.errorHandler.listeners, beh, 1)

\* _notifyListeners; beh[f] is what listener f does when it is called
notifyListeners(s, beh) == notifyFrom(s, s.errorHandler.listeners, beh, 1)

\* _logError: the entry bears the number of the call as its timestamp
logError(s, n) ==
  LET pushed == Append(s.errorHandler.errorLog, n)
  IN  [s EXCEPT !.errorHandler.errorLog =
                   IF Len(pushed) > maxLogSize THEN Tail(pushed) ELSE pushed]

\* handle(error, context, category, severity), the n-th call of it
handle(s, n, beh) ==
  notifyListeners([logError(s, n) EXCEPT !.handled = n], beh)

(***************************************************************************)
(* SessionControl                                                          *)
(***************************************************************************)
\* the catch block of handleStart: the error is shown and the button is
\* enabled again; the service is left as it is
handleStartCatch(s) ==
  [s EXCEPT !.page.isConnecting = FALSE, !.page.at = "idle"]

\* the end of the try block of handleStart
handleStartDone(s) ==
  [s EXCEPT !.page.isActive = TRUE,
            !.page.isConnecting = FALSE,
            !.page.at = "idle"]

\* handleStart up to its await of the settings
handleStart(s) ==
  [s EXCEPT !.page.isConnecting = TRUE, !.page.at = "settings"]

\* handleStart after the settings have arrived, up to its await of
\* connect(); k names the socket object connect() creates
handleStartConnect(s, len, k) ==
  [connect(s, k) EXCEPT !.page.at = "connect", !.page.len = len]

\* handleStart after connect() has resolved, up to its await of
\* startRecording, or to its end if startRecording returns or throws at once
handleStartRecord(s) ==
  LET a == startRecording(s, s.page.len, "user")
  IN  IF a.ev.failed THEN handleStartCatch(a)
      ELSE IF s.isRecording THEN handleStartDone(a)
      ELSE [a EXCEPT !.page.at = "start"]

handleStop(s) ==
  [disconnect(stopRecording(s)) EXCEPT !.page.isActive = FALSE]

(***************************************************************************)
(* AppContent                                                              *)
(***************************************************************************)
handlePlayStart(s) == setAudioPlaying(s, TRUE)

\* one more end of the playback that has started, with or without a message
Ended(e, sent) ==
  IF ~e.on THEN e
  ELSE [e EXCEPT !.n = IF @ < MaxEnds THEN @ + 1 ELSE @,
                 !.sent = IF sent /\ @ < MaxEnds THEN @ + 1 ELSE @]

\* a handlePlayEnd that notifies the server before it resumes the microphone
handlePlayEndReversed(s) ==
  [setAudioPlaying(sendControlMessage(s), FALSE) EXCEPT
     !.owed = FALSE, !.ends = Ended(@, wsOpen(s))]

handlePlayEnd(s) ==
  [sendControlMessage(setAudioPlaying(s, FALSE)) EXCEPT
     !.owed = FALSE, !.ends = Ended(@, wsOpen(s))]

handleAutoplayBlocked(s) == [s EXCEPT !.showAudioUnlock = TRUE]

(***************************************************************************)
(* The audio element (HTMLMediaElement) and AudioPlayer                    *)
(***************************************************************************)
\* a pending play() promise is rejected: the catch block of playAudio calls
\* onAutoplayBlocked, the one of retryPlay returns false
rejectPlay(s) ==
  LET a == [s EXCEPT !.awaiters = {}]
  IN  IF "playAudio" \in s.awaiters THEN handleAutoplayBlocked(a) ELSE a

\* a pending play() promise is fulfilled: playAudio has nothing left to do,
\* retryPlay returns true and handleUnlockAudio hides the prompt
resolvePlay(s) ==
  [s EXCEPT !.awaiters = {},
            !.showAudioUnlock = IF "retryPlay" \in s.awaiters THEN FALSE ELSE @]

\* audio.src = ...: the element drops what it was doing, forgets its queued
\* events and rejects the pending play() promises; an empty src is a load
\* failure, reported by an error event
mediaLoad(s, src) ==
  rejectPlay([s EXCEPT !.audio = [src |-> src, phase |-> "idle"],
                       !.mediaEvents = IF src = 0 THEN <<"error">> ELSE <<>>])

\* audio.play() called by who, with or without a gesture of the user
mediaPlay(s, who, gesture) ==
  LET a == IF gesture THEN [s EXCEPT !.autoplayAllowed = TRUE] ELSE s
      asked == [a EXCEPT !.awaiters = @ \cup {who}]
      refused == IF who = "playAudio" THEN handleAutoplayBlocked(a) ELSE a
  IN  IF ~a.autoplayAllowed THEN refused
      ELSE CASE a.audio.phase = "playing" ->
                  IF who = "retryPlay"
                  THEN [a EXCEPT !.showAudioUnlock = FALSE] ELSE a
             [] a.audio.phase = "loading" -> asked
             [] a.audio.phase = "failed" -> refused
             [] OTHER ->
                  IF a.audio.src = 0 THEN refused
                  ELSE [asked EXCEPT !.audio.phase = "loading",
                                     !.mediaEvents = Append(@, "play")]

playAudio(s, memeId) == mediaPlay(mediaLoad(s, memeId), "playAudio", FALSE)

handlePlay(s) == handlePlayStart([s EXCEPT !.ends = [NoEnds EXCEPT !.on = TRUE]])
handleEnded(s) == handlePlayEnd(s)
handleError(s) == handlePlayEnd(s)

stopAudio(s) == handlePlayEnd(mediaLoad(s, 0))

retryPlay(s) ==
  IF s.audio.src # 0 THEN mediaPlay(s, "retryPlay", TRUE) ELSE s

\* AppContent again: these use the player
handleTrigger(s, data) ==
  playAudio([s EXCEPT !.triggerData = data, !.ends = NoEnds], data)
handleSessionStop(s) == stopAudio(s)
handleUnlockAudio(s) == retryPlay(s)

(***************************************************************************)
(* The server: message loop and TriggerEngine (from the design document)   *)
(***************************************************************************)
\* a chunk written to the socket waits in the channel
Received(s) ==
  IF s.ev.sent
  THEN [s EXCEPT !.srvQueue = IF @ < MaxQueue THEN @ + 1 ELSE @]
  ELSE s

\* a control message written to the socket is on its way
Posted(s) ==
  IF s.ev.ctl THEN [s EXCEPT !.endedMsgs = @ + 1] ELSE s

\* a message loop that takes up a chunk whatever it is doing
srvAlwaysFree(s) == TRUE

\* the message loop of a client handles one chunk at a time
srvFree(s) == s.srvBusy = 0

now(s) == Instants[s.clock]

\* a cooldown whose window is still open at its last instant
CoolingDownStrict(s) ==
  /\ s.lastPlaybackEndedAt # None
  /\ now(s) - s.lastPlaybackEndedAt <= s.cooldownSeconds

CoolingDown(s) ==
  /\ s.lastPlaybackEndedAt # None
  /\ now(s) - s.lastPlaybackEndedAt < s.cooldownSeconds

NoTrigger(matches, roll) ==
  [kind |-> "none", item |-> 0, roll |-> roll, matches |-> matches]

\* a decide() that starts the cooldown when it triggers
decideArming(s, matches, roll, pick) ==
  IF matches = {} \/ CoolingDown(s) \/ roll >= s.triggerProbabilityPercent
  THEN [s EXCEPT !.decision = NoTrigger(matches, roll)]
  ELSE [s EXCEPT
          !.decision = [kind |-> "trigger", item |-> pick, roll |-> roll,
                        matches |-> matches],
          !.lastPlaybackEndedAt = now(s),
          !.emitted = @ + 1]

\* a decide() that does not look at the cooldown
decideEager(s, matches, roll, pick) ==
  IF matches = {} \/ roll >= s.triggerProbabilityPercent
  THEN [s EXCEPT !.decision = NoTrigger(matches, roll)]
  ELSE [s EXCEPT
          !.decision = [kind |-> "trigger", item |-> pick, roll |-> roll,
                        matches |-> matches],
          !.emitted = @ + 1]

\* a decide() that lets a roll equal to the probability through
decideInclusive(s, matches, roll, pick) ==
  IF matches = {} THEN [s EXCEPT !.decision = NoTrigger(matches, roll)]
  ELSE IF CoolingDown(s) THEN [s EXCEPT !.decision = NoTrigger(matches, roll)]
  ELSE IF roll > s.triggerProbabilityPercent
  THEN [s EXCEPT !.decision = NoTrigger(matches, roll)]
  ELSE [s EXCEPT
          !.decision = [kind |-> "trigger", item |-> pick, roll |-> roll,
                        matches |-> matches],
          !.emitted = @ + 1]

\* a decide() that selects from the whole library
decideAnyItem(s, matches, roll, pick) ==
  IF CoolingDown(s) THEN [s EXCEPT !.decision = NoTrigger(matches, roll)]
  ELSE IF roll >= s.triggerProbabilityPercent
  THEN [s EXCEPT !.decision = NoTrigger(matches, roll)]
  ELSE [s EXCEPT
          !.decision = [kind |-> "trigger",
                        item |-> CHOOSE i \in Items : \A j \in Items : i <= j,
                        roll |-> roll, matches |-> matches],
          !.emitted = @ + 1]

\* decide() for a match set, a roll and the item a uniform choice picks
decide(s, matches, roll, pick) ==
  IF matches = {} THEN [s EXCEPT !.decision = NoTrigger(matches, roll)]
  ELSE IF CoolingDown(s) THEN [s EXCEPT !.decision = NoTrigger(matches, roll)]
  ELSE IF roll >= s.triggerProbabilityPercent
  THEN [s EXCEPT !.decision = NoTrigger(matches, roll)]
  ELSE [s EXCEPT
          !.decision = [kind |-> "trigger", item |-> pick, roll |-> roll,
                        matches |-> matches],
          !.emitted = @ + 1]

onPlaybackEnded(s) ==
  [s EXCEPT !.lastPlaybackEndedAt = now(s), !.emitted = 0]

\* GET /api/status: the request names no client; the answer is the status
\* of the trigger engine
getStatus(s) ==
  [loaded |-> TRUE,
   cooldown_active |-> CoolingDown(s),
   cooldown_remaining |->
     IF CoolingDown(s)
     THEN s.cooldownSeconds - (now(s) - s.lastPlaybackEndedAt)
     ELSE 0]

\* SessionControl.loadStatus of page c
loadStatus(s, c) == [s EXCEPT !.status[c] = getStatus(s)]

(***************************************************************************)
(* The server: ContextMatcher (from the design document)                   *)
(***************************************************************************)
\* lower-casing, character by character
lower(c) == IF c = "A" THEN "a" ELSE c
Lower(str) == [i \in 1..Len(str) |-> lower(str[i])]

\* needle occurs in hay as a run of adjacent characters
Contains(hay, needle) ==
  \E k \in 0..(Len(hay) - Len(needle)) :
    SubSeq(hay, k + 1, k + Len(needle)) = needle

\* an item matches when either of tag and transcript contains the other
itemMatchesEitherWay(T, tags) ==
  \E tag \in tags :
    \/ Contains(Lower(T), Lower(tag))
    \/ Contains(Lower(tag), Lower(T))

\* an item matches when the transcript, lower-cased, contains one of its
\* tags, lower-cased
itemMatches(T, tags) ==
  \E tag \in tags : Contains(Lower(T), Lower(tag))

\* the items from the i-th on, each reported once if it matches
RECURSIVE matchFrom(_, _, _)
matchFrom(T, lib, i) ==
  IF i \notin DOMAIN lib THEN <<>>
  ELSE (IF itemMatches(T, lib[i]) THEN <<i>> ELSE <<>>)
         \o matchFrom(T, lib, i + 1)

match(T, lib) == matchFrom(T, lib, 1)

(***************************************************************************)
(* WebSocketService: observers and the messages of the server              *)
(***************************************************************************)
\* on(event, callback): the events the service keeps an observer for
Observable ==
  {"transcription", "match", "trigger", "debug", "error", "connectionChange"}

\* what a text frame may hold: no JSON at all, the JSON value null, or an
\* object with a type field
MessageTypes ==
  {"transcription", "match", "trigger", "debug", "error", "pong", "other"}
Frames ==
  {[json |-> "invalid", type |-> "none"], [json |-> "null", type |-> "none"]}
    \cup {[json |-> "object", type |-> t] : t \in MessageTypes}

on(s, event) ==
  IF event \in Observable THEN [s EXCEPT !.callbacks = @ \cup {event}] ELSE s

\* the switch of handleMessage: four types have a case that calls the
\* observer of the type if there is one, pong has an empty case and every
\* other type ends in the default case, which logs a warning
handleMessage(s, type) ==
  LET a == [s EXCEPT !.ev.got = type]
  IN  CASE type \in {"transcription", "match", "trigger", "debug"} ->
             IF type \in s.callbacks THEN [a EXCEPT !.ev.told = type] ELSE a
        [] type = "pong" -> a
        [] OTHER -> a

\* ws.onmessage: JSON.parse throws on a frame that is no JSON, data.type
\* throws on null; the catch logs either and the handler returns
onmessage(s, frame) ==
  IF frame.json = "object" THEN handleMessage(s, frame.type) ELSE s

(***************************************************************************)
(* The steps of the event loop                                             *)
(***************************************************************************)
\* no task the browser has queued is waiting to run
NoTask == stopTasks = <<>> /\ convTasks = <<>>

\* room for one more stopped recorder in the model
MayStop == Len(stopTasks) < MaxPending

\* room for one more request of the microphone in the model
MayAsk == Len(gumPending) + Cardinality(liveStreams) < MaxStreams

\* a name no live socket object bears; a closed socket has delivered its
\* last event and is garbage once this.ws lets go of it
FreeSocket(k) == sockState[k] \in {"none", "closed"}

\* connect() when no earlier socket object is alive
Connect ==
  /\ \A j \in Sockets : FreeSocket(j)
  /\ \E k \in Sockets :
       /\ \A j \in Sockets : k <= j
       /\ Commit(connect(Begin, k))

\* the socket becomes OPEN
SocketOpen ==
  \E k \in Sockets :
    /\ sockState[k] = "connecting"
    /\ Commit([Begin EXCEPT !.sockState[k] = "open"])

\* the socket becomes CLOSED
SocketClose ==
  \E k \in Sockets :
    /\ sockState[k] \in {"connecting", "failing", "open", "closing"}
    /\ Commit([Begin EXCEPT
                 !.sockState[k] = IF ws = k THEN "closed" ELSE "none"])

\* the connection is established, with what onopen lets the caller know
OnOpen ==
  \E k \in Sockets :
    /\ sockState[k] = "connecting"
    /\ Commit(onopen(Begin, k))

\* the connection is closed, with what the handlers let the caller know: the
\* socket becomes CLOSED, an error event is fired if the connection failed
\* (it did if it never opened), then the close event
OnClose ==
  \E k \in Sockets, failed \in BOOLEAN :
    /\ sockState[k] \in {"connecting", "failing", "open", "closing"}
    /\ promisePending(sockState[k]) => failed
    /\ LET s0 == [Begin EXCEPT
                    !.sockState[k] = IF ws = k THEN "closed" ELSE "none"]
           s1 == IF failed THEN onerror(s0, promisePending(sockState[k]))
                 ELSE s0
       IN  Commit(onclose(s1))

\* the application registers an observer
On ==
  \E event \in Observable \ callbacks :
    Commit(on(Begin, event))

\* a text frame arrives on a socket that is open
OnMessage ==
  \E k \in Sockets, frame \in Frames :
    /\ sockState[k] = "open"
    /\ Commit(onmessage(Begin, frame))

\* a clip starts to play: AudioPlayer calls onPlayStart
ClipStart ==
  /\ MayStop
  /\ ~clip
  /\ Commit([handlePlayStart(Begin) EXCEPT !.clip = TRUE])

\* the clip ends: AudioPlayer calls onPlayEnd
ClipEnd ==
  /\ clip
  /\ Commit([handlePlayEnd(Begin) EXCEPT !.clip = FALSE])

\* a page loads the status
LoadStatus ==
  \E c \in Clients :
    /\ status[c] # getStatus(Cur)
    /\ Commit(loadStatus(Begin, c))

\* the server receives the audio_ended of a page
AudioEndedFrom ==
  \E c \in Clients :
    /\ Instants[clock] # lastPlaybackEndedAt \/ c \notin signalled
    /\ Commit([onPlaybackEnded(Begin) EXCEPT !.signalled = @ \cup {c}])

\* the store changes the tags of an item: one tag is added or removed
Store ==
  \E i \in Items :
    \E tags \in {library[i] \cup {tag} : tag \in Vocabulary}
                 \cup {library[i] \ {tag} : tag \in Vocabulary} :
      /\ tags # library[i]
      /\ Commit([Begin EXCEPT !.library[i] = tags, !.transcript = <<>>,
                              !.matched = <<>>])

\* the server matches a transcript against the library the store supplied
Match ==
  /\ \A i \in Items : library[i] \subseteq Vocabulary
  /\ \E T \in Transcripts :
       Commit([Begin EXCEPT !.transcript = T, !.matched = match(T, library)])

Disconnect ==
  /\ MayStop
  /\ Commit([disconnect(Begin) EXCEPT !.stopped = TRUE])

StartRecording ==
  /\ MayAsk
  /\ \E len \in ChunkLengths :
       Commit(startRecording([Begin EXCEPT !.stopped = FALSE], len, "user"))

GumResolve ==
  \E i \in 1..Len(gumPending) :
    LET p == gumPending[i]
        rest == SubSeq(gumPending, 1, i - 1) \o SubSeq(gumPending, i + 1, Len(gumPending))
        s0 == [Begin EXCEPT !.gumPending = rest]
    IN  \/ \E st \in Streams \ liveStreams :
             /\ \A o \in Streams \ liveStreams : st <= o
             /\ Commit(startRecordingResume(s0, st, p.len))
        \/ \E name \in GumErrors :
             Commit(startRecordingFailed(s0, p.caller, name))

StopRecording ==
  /\ MayStop
  /\ Commit([stopRecording(Begin) EXCEPT !.stopped = TRUE])

SetAudioPlaying ==
  /\ MayStop
  /\ \E b \in BOOLEAN :
       Commit(setAudioPlaying(Begin, b))

OnStop ==
  /\ stopTasks # <<>>
  /\ Len(convTasks) < MaxPending
  /\ \E size \in ChunkSizes :
       Commit(onstop([Begin EXCEPT !.stopTasks = Tail(@)], size))

OnStopSend ==
  /\ convTasks # <<>>
  /\ Commit(onstopSend([Begin EXCEPT !.convTasks = Tail(@)],
                       Head(convTasks).size))

\* startRecording is called in a session that is recording
StartAgain ==
  /\ isRecording
  /\ MayAsk
  /\ \E len \in StartLengths :
       Commit([startRecording([Begin EXCEPT !.stopped = FALSE], len, "user")
                 EXCEPT !.ev.asked = len])

\* a component registers a listener
AddListener ==
  /\ Len(errorHandler.listeners) < MaxListeners
  /\ \E f \in Listeners : Commit(addListener(Begin, f))

\* a component calls the cleanup function of a listener
RemoveListener ==
  \E f \in Listeners :
    /\ \E i \in 1..Len(errorHandler.listeners) : errorHandler.listeners[i] = f
    /\ Commit(removeListener(Begin, f))

\* an error is handled
Handle ==
  /\ handled < MaxHandled
  /\ \E beh \in [Listeners -> Behaviours] :
       Commit(handle(Begin, handled + 1, beh))

\* the application calls getStatus() of the service
GetStatus ==
  /\ ws # 0
  /\ Commit(requestStatus(Begin))

\* the stop event of a recorder, while other chunks may be in conversion
OnStopNext ==
  /\ stopTasks # <<>>
  /\ Len(convTasks) < MaxConversions
  /\ \E size \in ChunkSizes :
       Commit(onstop([Begin EXCEPT !.stopTasks = Tail(@)], size))

\* one of the pending blob.arrayBuffer() promises is fulfilled: the promises
\* of different blobs are settled in no particular order
OnStopSendAny ==
  \E i \in 1..Len(convTasks) :
    LET rest == SubSeq(convTasks, 1, i - 1) \o SubSeq(convTasks, i + 1, Len(convTasks))
        a == onstopSend([Begin EXCEPT !.convTasks = rest], convTasks[i].size)
    IN  Commit([a EXCEPT
                  !.ev.late = a.ev.sent /\ i <= overtaken,
                  !.overtaken = IF i <= @ THEN @ - 1
                                ELSE IF a.ev.sent THEN i - 1 ELSE @])

FireTimer ==
  /\ NoTask
  /\ \E t \in timers :
       /\ t.left = 0
       /\ LET s0 == [Begin EXCEPT !.timers = @ \ {t}]
          IN  CASE t.kind = "stop" -> Commit(stopCycle(s0))
               [] t.kind = "cycle" -> Commit(startRecordingCycle(s0))
               [] t.kind = "resume" -> Commit(resumeCycle(s0))
               [] t.kind = "restart" ->
                     /\ MayAsk
                     /\ Commit(startRecording(s0, t.len, "restart"))

\* setAudioPlaying(true) and setAudioPlaying(false) at once, in one task
PauseResume ==
  /\ MayStop
  /\ Commit(setAudioPlaying(setAudioPlaying(Begin, TRUE), FALSE))

\* the onstop continuation, its chunk reaching the channel to the server
OnStopSendSrv ==
  /\ convTasks # <<>>
  /\ Commit(Received(onstopSend([Begin EXCEPT !.convTasks = Tail(@)],
                                Head(convTasks).size)))

\* the server's message loop takes the next chunk of this client
SrvTake ==
  /\ srvQueue > 0
  /\ srvFree(Cur)
  /\ Commit([Begin EXCEPT !.srvQueue = @ - 1, !.srvBusy = @ + 1])

\* transcription, matching and the trigger decision of a chunk are done
SrvDone ==
  /\ srvBusy > 0
  /\ Commit([Begin EXCEPT !.srvBusy = @ - 1])

\* a trigger message arrives on an open socket: handleMessage hands it to
\* handleTrigger, the effect of AudioPlayer plays it
Trigger ==
  /\ \E k \in Sockets : sockState[k] = "open"
  /\ triggerData < MaxTriggers
  /\ Commit(handleTrigger([Begin EXCEPT !.owed = TRUE], triggerData + 1))

\* the next event of the audio element is dispatched
MediaEvent ==
  /\ mediaEvents # <<>>
  /\ MayStop
  /\ LET s0 == [Begin EXCEPT !.mediaEvents = Tail(@)]
         e == Head(mediaEvents)
     IN  CASE e = "play" -> Commit(handlePlay(s0))
           [] e = "ended" -> Commit(handleEnded(s0))
           [] e = "error" -> Commit(handleError(s0))

\* the resource has loaded and playback begins
LoadOk ==
  /\ audio.phase = "loading"
  /\ Commit(resolvePlay([Begin EXCEPT !.audio.phase = "playing"]))

\* the resource cannot be loaded
LoadFail ==
  /\ audio.phase = "loading"
  /\ Commit(rejectPlay([Begin EXCEPT !.audio.phase = "failed",
                                     !.mediaEvents = Append(@, "error")]))

\* the clip has played to its end
PlaybackEnds ==
  /\ audio.phase = "playing"
  /\ Commit([Begin EXCEPT !.audio.phase = "ended",
                          !.mediaEvents = Append(@, "ended")])

\* the user presses the button of the unlock prompt
UnlockAudio ==
  /\ showAudioUnlock
  /\ Commit(handleUnlockAudio(Begin))

\* the session view reports that the session was stopped
SessionStop ==
  Commit(handleSessionStop(Begin))

\* the browser comes to allow playback without a gesture
AllowAutoplay ==
  /\ ~autoplayAllowed
  /\ Commit([Begin EXCEPT !.autoplayAllowed = TRUE])

\* time passes on the server
Advance ==
  /\ clock < Len(Instants)
  /\ Commit([Begin EXCEPT !.clock = @ + 1])

\* the settings are changed
Configure ==
  \E c \in Cooldowns, p \in Probabilities :
    /\ <<c, p>> # <<cooldownSeconds, triggerProbabilityPercent>>
    /\ Commit([Begin EXCEPT !.cooldownSeconds = c,
                            !.triggerProbabilityPercent = p])

\* the server decides on the matches of a transcript
Decide ==
  /\ emitted < MaxEmitted
  /\ \E matches \in SUBSET Items, roll \in Rolls :
       \E pick \in (IF matches = {} THEN {0} ELSE matches) :
         Commit(decide(Begin, matches, roll, pick))

\* playback ends on the client: handlePlayEnd, its message on the way
PlayEnd ==
  /\ endedMsgs < MaxMsgs
  /\ Commit(Posted(handlePlayEnd(Begin)))

\* the server receives audio_ended
AudioEnded ==
  /\ endedMsgs > 0
  /\ Commit(onPlaybackEnded([Begin EXCEPT !.endedMsgs = @ - 1]))

\* the button of SessionControl while it reads 'Start Session'
HandleStart ==
  /\ ~page.isActive
  /\ ~page.isConnecting
  /\ \E k \in Sockets : FreeSocket(k)
  /\ Commit(handleStart(Begin))

\* the settings arrive, or the request for them fails
HandleStartSettings ==
  /\ page.at = "settings"
  /\ \/ Commit(handleStartCatch(Begin))
     \/ \E len \in ChunkLengths, k \in Sockets :
          /\ FreeSocket(k)
          /\ \A j \in Sockets : FreeSocket(j) => k <= j
          /\ Commit(handleStartConnect(Begin, len, k))

\* ws.onopen, and what handleStart does when the promise it awaits resolves
PageOpen ==
  \E k \in Sockets :
    /\ sockState[k] = "connecting"
    /\ LET a == onopen(Begin, k)
       IN  IF page.at = "connect" /\ ws = k
           THEN /\ MayAsk
                /\ Commit(handleStartRecord([a EXCEPT !.stopped = FALSE]))
           ELSE Commit(a)

\* the socket closes, and what handleStart does when the promise it awaits
\* is rejected
PageClose ==
  \E k \in Sockets, failed \in BOOLEAN :
    /\ sockState[k] \in {"connecting", "failing", "open", "closing"}
    /\ promisePending(sockState[k]) => failed
    /\ LET s0 == [Begin EXCEPT
                    !.sockState[k] = IF ws = k THEN "closed" ELSE "none"]
           s1 == IF failed THEN onerror(s0, promisePending(sockState[k]))
                 ELSE s0
           s2 == onclose(s1)
       IN  IF page.at = "connect" /\ ws = k /\ s2.ev.settled = "rejected"
           THEN Commit(handleStartCatch(s2))
           ELSE Commit(s2)

\* getUserMedia settles, and what handleStart does when the startRecording
\* it awaits returns or throws
PageGumResolve ==
  \E i \in 1..Len(gumPending) :
    LET p == gumPending[i]
        rest == SubSeq(gumPending, 1, i - 1) \o SubSeq(gumPending, i + 1, Len(gumPending))
        s0 == [Begin EXCEPT !.gumPending = rest]
        awaited == p.caller = "user" /\ page.at = "start"
    IN  \/ \E st \in Streams \ liveStreams :
             /\ \A o \in Streams \ liveStreams : st <= o
             /\ LET a == startRecordingResume(s0, st, p.len)
                IN  Commit(IF awaited THEN handleStartDone(a) ELSE a)
        \/ \E name \in GumErrors :
             LET a == startRecordingFailed(s0, p.caller, name)
             IN  Commit(IF awaited THEN handleStartCatch(a) ELSE a)

\* the button of SessionControl while it reads 'Stop'
HandleStop ==
  /\ page.isActive
  /\ ~page.isConnecting
  /\ MayStop
  /\ Commit([handleStop(Begin) EXCEPT !.stopped = TRUE])

\* 500 ms pass: no task is waiting to run and no timer is due
Tick ==
  /\ NoTask
  /\ \A t \in timers : t.left > 0
  /\ Commit([Begin EXCEPT
               !.timers = {[t EXCEPT !.left = @ - 1] : t \in timers}])

Init ==
  /\ ws = 0
  /\ sockState = [k \in Sockets |-> "none"]
  /\ mediaRecorder = NoRecorder
  /\ audioStream = 0
  /\ liveStreams = {}
  /\ chunkLengthSeconds = DefaultChunkLength
  /\ isRecording = FALSE
  /\ isAudioPlaying = FALSE
  /\ corruptedChunksCount = 0
  /\ timers = {}
  /\ stopTasks = <<>>
  /\ convTasks = <<>>
  /\ gumPending = <<>>
  /\ gumAvailable \in BOOLEAN
  /\ stopped = TRUE
  /\ ev = NoEv
  /\ triggerData = 0
  /\ showAudioUnlock = FALSE
  /\ audio = NoAudio
  /\ mediaEvents = <<>>
  /\ awaiters = {}
  /\ autoplayAllowed = FALSE
  /\ owed = FALSE
  /\ srvQueue = 0
  /\ srvBusy = 0
  /\ clock = 1
  /\ lastPlaybackEndedAt = None
  /\ cooldownSeconds = 180
  /\ triggerProbabilityPercent = 50
  /\ decision = NoDecision
  /\ emitted = 0
  /\ endedMsgs = 0
  /\ callbacks = {}
  /\ library = [i \in Items |-> {}]
  /\ transcript = <<>>
  /\ matched = <<>>
  /\ status = [c \in Clients |-> NoStatus]
  /\ signalled = {}
  /\ clip = FALSE
  /\ heard = [rec |-> FALSE, stop |-> <<>>, conv |-> <<>>, sent |-> FALSE]
  /\ page = NoPage
  /\ ends = NoEnds
  /\ recorders = 0
  /\ overtaken = 0
  /\ errorHandler = NoErrors
  /\ handled = 0

Next ==
  \/ Connect
  \/ SocketOpen
  \/ SocketClose
  \/ Disconnect
  \/ StartRecording
  \/ GumResolve
  \/ StopRecording
  \/ SetAudioPlaying
  \/ OnStop
  \/ OnStopSend
  \/ FireTimer
  \/ Tick

Spec == Init /\ [][Next]_vars

NextPipeline ==
  \/ Connect
  \/ SocketOpen
  \/ StartRecording
  \/ GumResolve
  \/ OnStop
  \/ OnStopSendSrv
  \/ FireTimer
  \/ Tick
  \/ SrvTake
  \/ SrvDone

SpecPipeline == Init /\ [][NextPipeline]_vars

\* one session that is paused and resumed at once, over and over
NextPause ==
  \/ Connect
  \/ SocketOpen
  \/ StartRecording
  \/ GumResolve
  \/ PauseResume
  \/ OnStop
  \/ OnStopSend
  \/ FireTimer
  \/ Tick

SpecPause == Init /\ [][NextPause]_vars

\* the session and its connection; the session ends by disconnect() only
NextConnection ==
  \/ Connect
  \/ OnOpen
  \/ OnClose
  \/ Disconnect
  \/ StartRecording
  \/ GumResolve
  \/ OnStop
  \/ OnStopSend
  \/ FireTimer
  \/ Tick

SpecConnection == Init /\ [][NextConnection]_vars

\* a session that receives the messages of the server
NextMessages ==
  \/ Connect
  \/ SocketOpen
  \/ SocketClose
  \/ On
  \/ OnMessage
  \/ StartRecording
  \/ GumResolve
  \/ OnStop
  \/ OnStopSend
  \/ FireTimer
  \/ Tick

SpecMessages == Init /\ [][NextMessages]_vars

NextPlayback ==
  \/ Connect
  \/ SocketOpen
  \/ SocketClose
  \/ Trigger
  \/ MediaEvent
  \/ LoadOk
  \/ LoadFail
  \/ PlaybackEnds
  \/ UnlockAudio
  \/ SessionStop
  \/ AllowAutoplay

SpecPlayback == Init /\ [][NextPlayback]_vars

NextEngine ==
  \/ Connect
  \/ SocketOpen
  \/ SocketClose
  \/ Advance
  \/ Configure
  \/ Decide
  \/ PlayEnd
  \/ AudioEnded

SpecEngine == Init /\ [][NextEngine]_vars

\* the capture session of a client that never calls disconnect(), under
\* every call of startRecording, stopRecording and setAudioPlaying, on a
\* socket that may close at any time
NextStop ==
  \/ Connect
  \/ SocketOpen
  \/ SocketClose
  \/ StartRecording
  \/ GumResolve
  \/ StopRecording
  \/ SetAudioPlaying
  \/ OnStop
  \/ OnStopSend
  \/ FireTimer
  \/ Tick

SpecStop == Init /\ [][NextStop]_vars

\* the session as SessionControl starts and stops it
NextSession ==
  \/ HandleStart
  \/ HandleStartSettings
  \/ PageOpen
  \/ PageClose
  \/ PageGumResolve
  \/ HandleStop
  \/ OnStop
  \/ OnStopSend
  \/ FireTimer
  \/ Tick

SpecSession == Init /\ [][NextSession]_vars

\* the capture session with the buffer conversions completing in any order
NextOrder ==
  \/ Connect
  \/ SocketOpen
  \/ StartRecording
  \/ GumResolve
  \/ StopRecording
  \/ OnStopNext
  \/ OnStopSendAny
  \/ FireTimer
  \/ Tick

SpecOrder == Init /\ [][NextOrder]_vars

\* the session with its chunks and control messages on a socket that may
\* close at any time
NextSend ==
  \/ Connect
  \/ SocketOpen
  \/ SocketClose
  \/ StartRecording
  \/ GumResolve
  \/ ClipStart
  \/ ClipEnd
  \/ GetStatus
  \/ OnStop
  \/ OnStopSend
  \/ FireTimer
  \/ Tick

SpecSend == Init /\ [][NextSend]_vars

\* the capture session with startRecording called at any time
NextStart ==
  \/ Connect
  \/ SocketOpen
  \/ StartRecording
  \/ StartAgain
  \/ GumResolve
  \/ StopRecording
  \/ SetAudioPlaying
  \/ OnStop
  \/ OnStopSend
  \/ FireTimer
  \/ Tick

SpecStart == Init /\ [][NextStart]_vars

\* the ErrorHandler and its listeners
NextErrors ==
  \/ AddListener
  \/ RemoveListener
  \/ Handle

SpecErrors == Init /\ [][NextErrors]_vars

\* the capture session while clips start and end
NextFeedback ==
  \/ Connect
  \/ SocketOpen
  \/ StartRecording
  \/ GumResolve
  \/ StopRecording
  \/ ClipStart
  \/ ClipEnd
  \/ OnStop
  \/ OnStopSend
  \/ FireTimer
  \/ Tick

SpecFeedback == Init /\ [][NextFeedback]_vars

\* two pages, the status they load and the end of their playbacks
NextClients ==
  \/ Advance
  \/ LoadStatus
  \/ AudioEndedFrom

SpecClients == Init /\ [][NextClients]_vars

\* the matcher on every library and transcript of the model
NextMatcher ==
  \/ Store
  \/ Match

SpecMatcher == Init /\ [][NextMatcher]_vars

(***************************************************************************)
(* Properties of the capture session                                       *)
(***************************************************************************)
\* the last step ran an onstop handler on a non-empty recording below the
\* minimum size
CorruptHandled == ev.size > 0 /\ ev.size < MIN_CHUNK_SIZE

\* C3: no audio chunk is written to the socket at a moment when
\* isAudioPlaying is true, however the onstop handler interleaves with
\* setAudioPlaying.
C3_NoSendWhilePlaying == ev.sent => ~isAudioPlaying

\* C4: while isAudioPlaying is true (from setAudioPlaying(true) until
\* setAudioPlaying(false)) no recorder is in the recording state, also when
\* a timer set before the pause fires during it.
C4_PlaybackExcludesCapture == isAudioPlaying => ~recorderRecording(Cur)

\* C6: a chunk below MIN_CHUNK_SIZE bytes is never written to the socket.
C6_CorruptNeverSent == ev.sent => ev.size >= MIN_CHUNK_SIZE

\* a corrupt chunk was handled on an open socket: it was not sent and the
\* restart was called
C6_Witness == CorruptHandled /\ wsOpen(Cur) /\ ~ev.sent /\ ev.restart

\* C7, as stated: every finalized non-empty chunk below the minimum size is
\* followed by a session restart.
C7_AlwaysRestarts == CorruptHandled => ev.restart

\* C7, as the code has it: a non-empty chunk below the minimum size that is
\* handled while the socket is open calls restartRecording once and is not
\* sent; the call leaves the streak at 0, the session stopped with its stream
\* and recorder released, and one timer of RestartDelay that will ask for the
\* microphone again with the chunk length saved before the stop; a request
\* of a restart that waits for the microphone carries that length.  With the
\* socket not open the chunk is dropped and no restart happens.
C7_RestartOnCorrupt ==
  /\ (CorruptHandled /\ wsOpen(Cur)) => ev.restart
  /\ (CorruptHandled /\ ~wsOpen(Cur)) => ~ev.restart
  /\ ev.restart =>
       /\ CorruptHandled
       /\ ~ev.sent
       /\ corruptedChunksCount = 0
       /\ ~isRecording
       /\ audioStream = 0
       /\ mediaRecorder = NoRecorder
       /\ ev.saved = chunkLengthSeconds
       /\ Timer("restart", RestartDelay, ev.saved) \in timers
  /\ \A i \in 1..Len(gumPending) :
       gumPending[i].caller = "restart" =>
         gumPending[i].len = chunkLengthSeconds

\* a restart was called for a corrupt chunk of a session with a configured
\* chunk length
C7_Witness ==
  /\ CorruptHandled
  /\ ev.restart
  /\ ev.saved \in ChunkLengths
  /\ Timer("restart", RestartDelay, ev.saved) \in timers

\* C8: no recorder is started while the onstop handler of an earlier
\* recorder has not run to its end.
C8_StartAfterHandled == ev.started => NoTask

\* C10: after stopRecording() or disconnect(), until startRecording() is
\* called again, no recorder is recording and no microphone stream is live.
C10_StopCancels == stopped => (~recorderRecording(Cur) /\ liveStreams = {})

\* what stopRecording promises of the state it leaves: the session is not
\* recording, it references no stream and no recorder, the tracks of the
\* stream it held are stopped, and a second call would change nothing
StopLeaves(before, after) ==
  /\ ~after.isRecording
  /\ after.audioStream = 0
  /\ after.mediaRecorder = NoRecorder
  /\ before.audioStream # 0 => before.audioStream \notin after.liveStreams
  /\ stopRecording(after) = after

\* C11, as stated: stopRecording() is idempotent, releases the stream and
\* the recorder, and called on a session that is not recording it changes
\* nothing at all.
C11_StopIdleChangesNothing ==
  [][StopRecording =>
       /\ StopLeaves(Cur, Cur')
       /\ ~isRecording => Cur' = [Begin EXCEPT !.stopped = TRUE]]_vars

\* C11, as the code has it: stopRecording() is idempotent and releases the
\* stream and the recorder; called on a session that is not recording it
\* changes nothing but isAudioPlaying, which it sets to false.
C11_StopIdempotent ==
  [][StopRecording =>
       /\ StopLeaves(Cur, Cur')
       /\ ~isRecording =>
            Cur' = [Begin EXCEPT !.stopped = TRUE, !.isAudioPlaying = FALSE]]_vars

\* stopRecording() was called on a running session (the stop event of its
\* recorder is queued) and left it released
C11_Witness ==
  /\ stopped
  /\ stopTasks # <<>>
  /\ ~isRecording
  /\ audioStream = 0
  /\ mediaRecorder = NoRecorder
  /\ liveStreams = {}
  /\ gumPending = <<>>

\* C12: a recording made before stopRecording() is not written to the
\* socket after the call: no chunk is sent while the caller's last word is
\* stop and no session has been started since.
C12_StopDiscardsChunks == ev.sent => ~(stopped /\ ~isRecording)

\* the names startRecording can fail with
StartErrors == GumErrors \cup {"NotSupportedError"}

\* C14: a startRecording that fails reports and throws an error that bears
\* the name of its cause, and its own message for each cause it knows; it
\* fails at once, without asking, exactly when getUserMedia is missing; it
\* leaves isRecording, the stream, the recorder and the pending tasks as
\* they were and sets no timer, so that an idle session stays idle, and it
\* asks for the microphone no second time.
C14_StartFailure ==
  [][ev'.failed =>
       /\ ev'.named
       /\ \A n \in StartErrors : enhancedError(n).name = n
       /\ \A n, m \in GumErrors :
            enhancedError(n).message = enhancedError(m).message => n = m
       /\ ev'.errs >= 1
       /\ isRecording' = isRecording
       /\ audioStream' = audioStream
       /\ liveStreams' = liveStreams
       /\ mediaRecorder' = mediaRecorder
       /\ stopTasks' = stopTasks
       /\ convTasks' = convTasks
       /\ timers' \subseteq timers
       /\ Len(gumPending') = Len(gumPending) - (IF gumAvailable THEN 1 ELSE 0)
       /\ ~ev'.started]_vars

\* the only request of an idle session has just been refused by
\* getUserMedia: the session is idle, nothing is scheduled or asked for
C14_Witness ==
  /\ ev.failed
  /\ ev.named
  /\ ev.errs = 1
  /\ gumAvailable
  /\ ~stopped
  /\ ~isRecording
  /\ audioStream = 0
  /\ liveStreams = {}
  /\ timers = {}
  /\ gumPending = <<>>

\* C15: a recorder that the stop timer stops is stopped by its own timer,
\* set chunkLengthSeconds before: when a stop timer stops a recorder, no
\* later stop timer is left pending (the latest one belongs to the recorder
\* that is recording).
C15_FullLengthCycles ==
  [][(/\ recorderRecording(Cur)
      /\ mediaRecorder'.state = "inactive"
      /\ \E t \in timers \ timers' : t.kind = "stop")
       => \A t \in timers' : t.kind # "stop"]_vars

C17_ResumeIfActive ==
  [][/\ (isAudioPlaying /\ ~isAudioPlaying' /\ isRecording') =>
          Timer("resume", CycleDelay, 0) \in timers'
     /\ ev'.resumed =>
          /\ isRecording' = isRecording
          /\ isRecording => recorderRecording(Cur')
          /\ ~isRecording =>
               (~ev'.started /\ mediaRecorder' = mediaRecorder)]_vars

\* the resume timer has fired after stopRecording() was called in the
\* meantime: nothing was started
C17_Witness ==
  /\ ev.resumed
  /\ stopped
  /\ ~isRecording
  /\ ~ev.started
  /\ mediaRecorder = NoRecorder
  /\ audioStream = 0

(***************************************************************************)
(* Properties of the connection                                            *)
(***************************************************************************)
\* C13: after disconnect(), until connect() or startRecording() is called,
\* no socket is referenced and no capture runs: isRecording is false, no
\* stream is referenced or live and no recorder is recording.
C13_DisconnectEndsCapture ==
  (stopped /\ ws = 0) =>
    /\ ~isRecording
    /\ audioStream = 0
    /\ liveStreams = {}
    /\ ~recorderRecording(Cur)

\* C19: the promise of connect() is resolved only in the step in which the
\* socket opens, after the observer was told "up"; it is rejected when the
\* connection ends without having opened, and only then.
C19_ConnectOutcome ==
  [][/\ ev'.settled = "resolved" =>
          /\ \E k \in Sockets :
               sockState[k] = "connecting" /\ sockState'[k] = "open"
          /\ ev'.conn = "up"
     /\ \A k \in Sockets :
          (promisePending(sockState[k]) /\ sockState'[k] \in {"closed", "none"})
            => ev'.settled = "rejected"
     /\ ev'.settled = "rejected" =>
          /\ \E k \in Sockets :
               promisePending(sockState[k]) /\ sockState'[k] \in {"closed", "none"}
          /\ \A k \in Sockets : sockState'[k] # "open"]_vars

\* connect() has just completed with success on the socket the service holds
C19_Witness == ev.settled = "resolved" /\ ev.conn = "up" /\ wsOpen(Cur)

PlayerAtRest ==
  /\ mediaEvents = <<>>
  /\ audio.phase \notin {"loading", "playing"}

\* C5: every trigger is followed by handlePlayEnd (setAudioPlaying(false)
\* and audio_ended), also when playback could not start: once the player has
\* come to rest no trigger is left without it and isAudioPlaying is false.
C5_EndPathAlwaysRuns == PlayerAtRest => (~owed /\ ~isAudioPlaying)

\* playback terminates: the ended or the error event is dispatched, or
\* stopAudio() is called
Terminates ==
  \/ /\ mediaEvents # <<>>
     /\ Head(mediaEvents) \in {"ended", "error"}
     /\ MediaEvent
  \/ SessionStop

\* C18, as stated: when a started playback terminates, setAudioPlaying(false)
\* is called and then audio_ended is sent.
C18_EndAlwaysNotifies ==
  [][(Terminates /\ isAudioPlaying) =>
       (~isAudioPlaying' /\ ev'.ctl /\ ~ev'.early)]_vars

\* C18, as the code has it: when playback terminates, setAudioPlaying(false)
\* is called first and audio_ended is written to the socket after it,
\* exactly when the socket is open at that time; otherwise no message is
\* sent.
C18_EndPathInOrder ==
  [][Terminates =>
       /\ ~isAudioPlaying'
       /\ ~owed'
       /\ ~ev'.early
       /\ ev'.ctl <=> wsOpen(Cur)]_vars

\* a clip has played to its end on an open socket and audio_ended was sent
C18_Witness ==
  /\ ev.ctl
  /\ ~ev.early
  /\ ~isAudioPlaying
  /\ audio.phase = "ended"
  /\ mediaEvents = <<>>
  /\ wsOpen(Cur)

(***************************************************************************)
(* Properties of the trigger engine                                        *)
(***************************************************************************)
\* C1: a decide() that returns a trigger leaves lastPlaybackEndedAt as it
\* was and the engine Ready; lastPlaybackEndedAt changes only when the
\* server receives audio_ended, and then to the current time.
C1_TriggerDoesNotArm ==
  [][/\ decision'.kind = "trigger" =>
          /\ lastPlaybackEndedAt' = lastPlaybackEndedAt
          /\ ~CoolingDown([lastPlaybackEndedAt |-> lastPlaybackEndedAt',
                           clock |-> clock',
                           cooldownSeconds |-> cooldownSeconds'])
     /\ lastPlaybackEndedAt' # lastPlaybackEndedAt =>
          /\ endedMsgs' = endedMsgs - 1
          /\ lastPlaybackEndedAt' = Instants[clock]]_vars

\* a second trigger in a row, after a playback that ended earlier, under a
\* cooldown that is not zero
C1_Witness ==
  /\ decision.kind = "trigger"
  /\ emitted = 2
  /\ lastPlaybackEndedAt # None
  /\ cooldownSeconds > 0

\* C2: a decide() at a time less than cooldownSeconds after the last
\* onPlaybackEnded() returns no trigger, whatever the probability, the roll
\* and the matches.
C2_NoTriggerInCooldown ==
  (decision.kind # "idle" /\ CoolingDown(Cur)) => decision.kind = "none"

\* a decision inside the cooldown that the roll and the matches would have
\* let through
C2_Witness ==
  /\ decision.kind = "none"
  /\ CoolingDown(Cur)
  /\ decision.matches # {}
  /\ decision.roll < triggerProbabilityPercent

\* the engine is Ready: playback has never ended, or it ended at least
\* cooldownSeconds ago
Ready ==
  \/ lastPlaybackEndedAt = None
  \/ Instants[clock] - lastPlaybackEndedAt >= cooldownSeconds

\* C24: a decide() in state Ready on a match set that is not empty returns
\* a trigger if and only if the roll is less than triggerProbabilityPercent:
\* always with probability 100, never with probability 0, and with
\* probability 50 for a roll of 42.
C24_TriggerIffRollBelow ==
  (decision.kind # "idle" /\ decision.matches # {} /\ Ready) =>
    /\ decision.kind = "trigger" <=> decision.roll < triggerProbabilityPercent
    /\ triggerProbabilityPercent = 100 => decision.kind = "trigger"
    /\ triggerProbabilityPercent = 0 => decision.kind = "none"
    /\ (triggerProbabilityPercent = 50 /\ decision.roll = 42)
         => decision.kind = "trigger"

\* at t = 0, Ready, a roll of 42 against a probability of 50 triggers with an
\* item of the match set
C24_Witness ==
  /\ decision.kind = "trigger"
  /\ decision.roll = 42
  /\ triggerProbabilityPercent = 50
  /\ Instants[clock] = 0
  /\ lastPlaybackEndedAt = None
  /\ decision.item \in decision.matches

\* C25: the cooldown check of decide() passes at every time t with
\* t - lastPlaybackEndedAt >= cooldownSeconds, the boundary included, and on
\* an engine whose onPlaybackEnded() was never called: a decision there
\* depends on the matches and the roll alone.  At any earlier time it fails.
C25_CooldownByElapsedTime ==
  (decision.kind # "idle" /\ decision.matches # {}
     /\ decision.roll < triggerProbabilityPercent) =>
    /\ lastPlaybackEndedAt = None => decision.kind = "trigger"
    /\ lastPlaybackEndedAt # None =>
         (decision.kind = "trigger" <=>
            Instants[clock] - lastPlaybackEndedAt >= cooldownSeconds)
    /\ (lastPlaybackEndedAt = 10 /\ Instants[clock] = 190
          /\ cooldownSeconds = 180) => decision.kind = "trigger"

\* playback ended at t = 10, the cooldown is 180 and a decision at t = 190
\* triggers
C25_Witness ==
  /\ decision.kind = "trigger"
  /\ lastPlaybackEndedAt = 10
  /\ Instants[clock] = 190
  /\ cooldownSeconds = 180

\* C26: the item of a trigger is a member of the match set decide() was
\* given; on an empty match set decide() returns no trigger, whatever the
\* cooldown state and the probability.
C26_SelectionFromMatches ==
  /\ decision.kind = "trigger" =>
       (decision.item \in decision.matches /\ decision.matches \subseteq Items)
  /\ (decision.kind # "idle" /\ decision.matches = {}) =>
       (decision.kind = "none" /\ decision.item = 0)

\* a trigger on a match set that is not the whole library
C26_Witness ==
  /\ decision.kind = "trigger"
  /\ decision.matches # {} /\ decision.matches # Items
  /\ decision.item \in decision.matches
  /\ \E i \in Items : i < decision.item

(***************************************************************************)
(* Properties of the matcher (SpecMatcher)                                 *)
(***************************************************************************)
\* the tag, lower-cased, stands in the transcript, lower-cased, from
\* position k + 1 on
TagAt(tag, k) ==
  /\ k + Len(tag) <= Len(transcript)
  /\ \A j \in 1..Len(tag) : lower(transcript[k + j]) = lower(tag[j])

C29_NoChunkHeardClip == ~heard.sent

\* C30: at most one microphone stream is live at a time, and a live stream
\* is the one this.audioStream refers to, so that the next stopRecording()
\* stops its tracks.
C30_OneStreamHeld ==
  /\ Cardinality(liveStreams) <= 1
  /\ liveStreams \subseteq {audioStream}

(***************************************************************************)
(* Messages from the server (SpecMessages)                                 *)
(***************************************************************************)
\* the types the design document gives an observer
Delivered == {"transcription", "match", "trigger", "debug", "error"}

\* what a frame from the server must leave alone
Capture(s) ==
  <<s.isRecording, s.isAudioPlaying, s.mediaRecorder, s.audioStream,
    s.liveStreams, s.timers, s.stopTasks, s.convTasks, s.gumPending,
    s.chunkLengthSeconds, s.corruptedChunksCount, s.ws, s.sockState>>

\* C21: a message of type transcription, match, trigger, debug or error is
\* handed to the observer registered for its type; a pong, a message of any
\* other type and a frame that cannot be parsed call no observer; no frame
\* changes the capture state or the connection.
C21_InboundDelivered ==
  [][OnMessage =>
       /\ (ev'.got \in Delivered /\ ev'.got \in callbacks)
            => ev'.told = ev'.got
       /\ ev'.got \notin Delivered => ev'.told = "none"
       /\ Capture(Cur') = Capture(Cur)]_vars

C23_RecoveryIsSilent ==
  [][/\ (OnStop /\ ev'.size < MIN_CHUNK_SIZE)
          => (ev'.errs = 0 /\ ev'.conn = "none" /\ ~ev'.failed)
     /\ ev'.restart
          => /\ ev'.errs = 0 /\ ev'.conn = "none" /\ ~ev'.failed
             /\ ev'.size > 0 /\ ev'.size < MIN_CHUNK_SIZE
             /\ Timer("restart", RestartDelay, chunkLengthSeconds) \in timers'
     /\ ev'.errs > 0
          => /\ ev'.failed /\ ~ev'.started /\ ~ev'.restart
             /\ gumAvailable => Len(gumPending') < Len(gumPending)
     /\ (Len(gumPending') < Len(gumPending) /\ ~ev'.failed)
          => (ev'.errs = 0 /\ isRecording' /\ recorderRecording(Cur'))]_vars

\* an undersized chunk has just been handled: the session is stopped, its
\* stream released, the restart is due after the delay and no observer was
\* called
C23_Witness ==
  /\ ev.restart /\ ev.size = MIN_CHUNK_SIZE - 1
  /\ ev.errs = 0 /\ ev.conn = "none" /\ ~ev.failed
  /\ ~isRecording /\ audioStream = 0 /\ liveStreams = {}
  /\ Timer("restart", RestartDelay, chunkLengthSeconds) \in timers
  /\ ~stopped

\* C31: at most one socket of the client is open at any time.
C31_OneChannelOpen ==
  Cardinality({k \in Sockets : sockState[k] = "open"}) <= 1

\* C32: the playback of a clip, once started, is ended by at most one run
\* of handlePlayEnd and at most one audio_ended message.
C32_OneEndPerPlayback == ends.n <= 1 /\ ends.sent <= 1

\* C33: at most one MediaRecorder is recording at any time, and a recorder
\* that records is the one this.mediaRecorder refers to.
C33_OneRecorderRecording ==
  /\ recorders <= 1
  /\ recorders = 1 <=> recorderRecording(Cur)

\* a recorder was started while the stop event of an earlier recorder was
\* still to be handled and a further request of the microphone was pending
C33_Witness ==
  /\ ev.started
  /\ recorders = 1
  /\ stopTasks # <<>>
  /\ gumPending # <<>>

\* C34: corruptedChunksCount never exceeds 1; it is 0 while a recorder
\* records, after a valid chunk was handled, after a restart was called and
\* when a recorder is started.
C34_StreakBounded ==
  /\ corruptedChunksCount <= 1
  /\ recorderRecording(Cur) => corruptedChunksCount = 0
  /\ ev.size >= MIN_CHUNK_SIZE => corruptedChunksCount = 0
  /\ ev.restart => corruptedChunksCount = 0
  /\ ev.started => corruptedChunksCount = 0

\* an undersized chunk was counted and the restart it caused has put the
\* count back to 0, with no recorder recording
C34_Witness ==
  /\ ev.restart
  /\ ev.size > 0
  /\ ev.size < MIN_CHUNK_SIZE
  /\ corruptedChunksCount = 0
  /\ ~recorderRecording(Cur)

\* C35: no chunk is written to the socket after a chunk that was recorded
\* later.
C35_SentInRecordingOrder == ~ev.late

\* C36: a chunk or a control message is written only while this.ws is
\* open.  A control message issued otherwise changes nothing and reports
\* nothing; a chunk whose conversion ends otherwise is given up without a
\* report.  Control messages are written only by the call that issues them
\* and a chunk only by the continuation that converted it, so nothing that
\* was dropped is written later.
C36_NoWriteUnlessOpen ==
  [][/\ (ev'.sent \/ ev'.ctl) => wsOpen(Cur)
     /\ (GetStatus /\ ~wsOpen(Cur)) => Cur' = [Begin EXCEPT !.heard = heard']
     /\ (ClipEnd /\ ~wsOpen(Cur)) => (~ev'.ctl /\ ev'.errs = 0)
     /\ (OnStopSend /\ ~wsOpen(Cur)) =>
          /\ ~ev'.sent
          /\ ev'.errs = 0
          /\ convTasks' = Tail(convTasks)
     /\ (OnStop /\ ~wsOpen(Cur)) =>
          /\ ev'.errs = 0
          /\ convTasks' = convTasks
     /\ ev'.ctl => (GetStatus \/ ClipEnd)
     /\ ev'.sent => (OnStopSend /\ Len(convTasks') < Len(convTasks))]_vars

\* the conversion of a valid chunk ended in a running session whose socket
\* had closed: nothing was written and nothing was reported
C36_Witness ==
  /\ ev.size >= MIN_CHUNK_SIZE
  /\ ~ev.sent
  /\ ev.errs = 0
  /\ ws # 0
  /\ sockState[ws] = "closed"
  /\ convTasks = <<>>
  /\ isRecording

\* C37: startRecording called while isRecording is true changes nothing:
\* no request of the microphone, no stream, the chunk length, the recorder
\* and the timers of the running cycle as they were.
C37_StartWhileRecordingNoOp ==
  [][(isRecording /\ (StartRecording \/ StartAgain)) =>
       Cur' = [Begin EXCEPT !.stopped = FALSE,
                            !.ev.asked = ev'.asked,
                            !.heard = heard']]_vars

\* startRecording was called with another chunk length while a recorder
\* was recording: the length, the recorder and its stop timer are in place
\* and no request of the microphone is pending
C37_Witness ==
  /\ ev.asked # 0
  /\ ev.asked # chunkLengthSeconds
  /\ isRecording
  /\ recorderRecording(Cur)
  /\ gumPending = <<>>
  /\ Cardinality(liveStreams) = 1
  /\ \E t \in timers : t.kind = "stop"

\* C38: a startRecording that fails calls the error observer once, whoever
\* called it.
C38_FailureReportedOnce == ev.failed => ev.errs = 1

\* the last n elements of a sequence
LastOf(seq, n) ==
  IF Len(seq) <= n THEN seq ELSE SubSeq(seq, Len(seq) - n + 1, Len(seq))

\* C39: handle() calls every listener that was registered when it began,
\* once for each of its registrations and in their order, whatever the
\* listeners do (throw, remove or add listeners); after the cleanup function
\* of a listener was called no later handle() calls that listener, and the
\* other listeners stay; the log holds the last maxLogSize entries at most,
\* the oldest being dropped first.
C39_ListenersAndLog ==
  [][/\ Handle =>
          /\ ev'.notified = errorHandler.listeners
          /\ errorHandler'.errorLog =
               LastOf(Append(errorHandler.errorLog, handled'), maxLogSize)
     /\ RemoveListener =>
          \E f \in Listeners :
            /\ \A i \in 1..Len(errorHandler'.listeners) :
                 errorHandler'.listeners[i] # f
            /\ errorHandler'.listeners =
                 SelectSeq(errorHandler.listeners, LAMBDA l : l # f)
     /\ Len(errorHandler'.errorLog) <= maxLogSize
     /\ \A i \in 1..Len(errorHandler'.errorLog) :
          errorHandler'.errorLog[i] = handled' - Len(errorHandler'.errorLog) + i]_vars

\* the log is full and has dropped its first entry; the handle() that did
\* it called two listeners, the first of which removed the second
C39_Witness ==
  /\ handled > maxLogSize
  /\ Len(errorHandler.errorLog) = maxLogSize
  /\ Head(errorHandler.errorLog) = handled - maxLogSize + 1
  /\ Len(ev.notified) = 2
  /\ ev.notified[1] # ev.notified[2]
  /\ errorHandler.listeners = <<ev.notified[1]>>

====
